---- MODULE Spec2Model ----
(***************************************************************************)
(* A model of prompt-eng's chatbot client layer: ModelOptions and AIModel  *)
(* (models.py), the two ChatbotClient variants, the client factory and the *)
(* bootstrap helper (clients.py).                                          *)
(*                                                                         *)
(* Python values are modelled with their dynamic type, because the code's  *)
(* behaviour depends on truthiness and isinstance: a value is a record     *)
(* [t, v] with t the type name and v the number (floats are kept in        *)
(* tenths: F(5) is 0.5, F(10) is 1.0) or, for a str, its length.           *)
(***************************************************************************)
EXTENDS Integers, Sequences, FiniteSets, TLC

VARIABLES
    client,      \* the client instance the caller holds, or NoClient
    pre,         \* the client instance as it was when the last call began
    opts,        \* the ModelOptions object the caller holds
    inventory,   \* the model listing the backend currently serves
    op,          \* the last call: its name and its arguments
    events,      \* what the last call did, in program order
    ret,         \* how the last call ended: a return value or a raised error
    lastPrompt   \* history: the non-empty prompt most recently passed to
                 \* set_system_prompt on this instance ("" when there is none)

vars == <<client, pre, opts, inventory, op, events, ret, lastPrompt>>

\* ------------------------------------------------------------------ bounds

\* The caller sets at most this many fields of its ModelOptions object.
MaxSetFields == 2
\* The backend lists at most this many models.
MaxModels == 2

\* ----------------------------------------------------------- Python values

PyNone == [t |-> "none", v |-> 0]
I(n) == [t |-> "int", v |-> n]
F(tenths) == [t |-> "float", v |-> tenths]
S(len) == [t |-> "str", v |-> len]

\* bool(x) for None, int, float and str: None, 0, 0.0 and "" are false.
Truthy(x) == x.t # "none" /\ x.v # 0

IsInstance(x, type) == x.t = type

\* The number x in tenths, so that an int and a float compare as in Python.
Tenths(x) == IF x.t = "float" THEN x.v ELSE x.v * 10

Return(v) == [kind |-> "return", val |-> v]
Raise(e) == [kind |-> "raise", val |-> e]
NoResult == [kind |-> "none", val |-> ""]

\* ---------------------------------------------------------- ModelOptions

Fields == {"max_tokens", "temperature", "top_k", "top_p", "context_window_size", "seed"}

\* ModelOptions(): every field defaults to None.
ModelOptions == [f \in Fields |-> PyNone]

\* What a caller may store in a field: the dataclass checks nothing on
\* assignment, so values of the wrong type or out of range get in.
FloatInputs == {F(0), F(5), F(15), F(-5), I(0), I(1)}
RangedIntInputs == {I(0), I(50), I(101), I(-1), F(0), S(0)}
IntInputs == {I(0), I(7), F(0), F(15), S(0)}

FieldInputs(f) ==
    CASE f \in {"temperature", "top_p"} -> FloatInputs
      [] f = "top_k" -> RangedIntInputs
      [] OTHER -> IntInputs

\* One field's check in validate: "" when it passes, else the error raised.
CheckUnit(x, type) ==
    IF Truthy(x) /\ ~IsInstance(x, type) THEN "TypeError"
    ELSE IF Truthy(x) /\ (Tenths(x) < 0 \/ Tenths(x) > 10) THEN "ValueError"
    ELSE ""

CheckTopK(x) ==
    IF Truthy(x) /\ ~IsInstance(x, "int") THEN "TypeError"
    ELSE IF Truthy(x) /\ (x.v < 0 \/ x.v > 100) THEN "ValueError"
    ELSE ""

CheckInt(x) ==
    IF Truthy(x) /\ ~IsInstance(x, "int") THEN "TypeError" ELSE ""

\* The fields in the order validate checks them, each with its check.
ValidateOrder == <<"temperature", "max_tokens", "top_k", "top_p", "context_window_size", "seed">>

CheckField(o, f) ==
    CASE f \in {"temperature", "top_p"} -> CheckUnit(o[f], "float")
      [] f = "top_k" -> CheckTopK(o[f])
      [] OTHER -> CheckInt(o[f])

\* ModelOptions.validate: "" when it returns, else the first error raised.
RECURSIVE ValidateFrom(_, _)
ValidateFrom(o, i) ==
    IF i > Len(ValidateOrder) THEN ""
    ELSE IF CheckField(o, ValidateOrder[i]) # "" THEN CheckField(o, ValidateOrder[i])
    ELSE ValidateFrom(o, i + 1)

validate(o) == ValidateFrom(o, 1)

\* ------------------------------------------------------- _parse_options

\* A dict is a function from its keys; {} is the function with no key.
EmptyDict == [k \in {} |-> PyNone]

\* The request field each generic option becomes, per variant.
OpenWebUIParam ==
    [context_window_size |-> "num_ctx", max_tokens |-> "max_tokens", top_k |-> "top_k",
     top_p |-> "top_p", temperature |-> "temperature", seed |-> "seed"]

OllamaParam ==
    [max_tokens |-> "num_predict", temperature |-> "temperature", top_p |-> "top_p",
     seed |-> "seed", top_k |-> "top_k", context_window_size |-> "num_ctx"]

\* The dict built by the chain of "if options.<f>: d[<param>] = options.<f>".
TruthyParams(o, param) ==
    LET set == {f \in Fields : Truthy(o[f])}
    IN  [k \in {param[f] : f \in set} |-> o[CHOOSE f \in set : param[f] = k]]

OpenWebUI_parse_options(o) ==
    IF validate(o) # "" THEN Raise(validate(o))
    ELSE Return(TruthyParams(o, OpenWebUIParam))

Ollama_parse_options(o) ==
    IF validate(o) # "" THEN Raise(validate(o))
    ELSE LET nested_options == TruthyParams(o, OllamaParam)
         IN  IF nested_options # EmptyDict
             THEN Return([k \in {"options"} |-> nested_options])
             ELSE Return(EmptyDict)

parse_options(kind, o) ==
    IF kind = "OpenWebUI" THEN OpenWebUI_parse_options(o) ELSE Ollama_parse_options(o)

Kinds == {"OpenWebUI", "Ollama"}

\* ------------------------------------------------------------ the state

NoClient == [kind |-> "none", host |-> "", bearer |-> "", system_prompt |-> ""]
NoOp == [name |-> "none"]

Init ==
    /\ client = NoClient
    /\ pre = NoClient
    /\ opts = ModelOptions
    /\ inventory = <<>>
    /\ op = NoOp
    /\ events = <<>>
    /\ ret = NoResult
    /\ lastPrompt = ""

\* Between two calls the caller assigns one field of its options object. The
\* record of the last call (op, events, ret) describes the call just made, so
\* it is cleared when the caller moves on to prepare the next one.
SetOption(f, x) ==
    /\ Cardinality({g \in Fields : g # f /\ opts[g] # PyNone}) < MaxSetFields
    /\ opts' = [opts EXCEPT ![f] = x]
    /\ op' = NoOp
    /\ events' = <<>>
    /\ ret' = NoResult
    /\ UNCHANGED <<client, pre, inventory, lastPrompt>>

\* The caller clears one field again.
ClearOption(f) ==
    /\ opts[f] # PyNone
    /\ opts' = [opts EXCEPT ![f] = PyNone]
    /\ op' = NoOp
    /\ events' = <<>>
    /\ ret' = NoResult
    /\ UNCHANGED <<client, pre, inventory, lastPrompt>>

\* options.validate() called on its own.
Validate ==
    /\ op' = [name |-> "validate", options |-> opts]
    /\ ret' = IF validate(opts) = "" THEN Return(PyNone) ELSE Raise(validate(opts))
    /\ events' = <<>>
    /\ UNCHANGED <<client, pre, opts, inventory, lastPrompt>>

\* client._parse_options(options) called on a client of the given variant.
ParseOptions(kind) ==
    /\ op' = [name |-> "_parse_options", kind |-> kind, options |-> opts]
    /\ ret' = parse_options(kind, opts)
    /\ events' = <<>>
    /\ UNCHANGED <<client, pre, opts, inventory, lastPrompt>>

\* ------------------------------------------------------ client variants

GatewayHost == "chat.hpc.fau.edu"

OpenWebUIClient(host, bearer) ==
    [kind |-> "OpenWebUI", host |-> host, bearer |-> bearer, system_prompt |-> ""]

\* An OllamaClient has no _bearer attribute; the field stays "".
OllamaClient(host) ==
    [kind |-> "Ollama", host |-> host, bearer |-> "", system_prompt |-> ""]

\* Configuration mappings: a dict that may lack either key.
Hosts == {GatewayHost, "localhost:11434"}
Configs ==
    {[chatbot_api_host |-> h, bearer |-> "tok"] : h \in Hosts}
        \cup {[chatbot_api_host |-> h] : h \in Hosts}
        \cup {[bearer |-> "tok"]}

\* A factory with the host test inverted.
create_client_inverted(config) ==
    IF "chatbot_api_host" \notin DOMAIN config THEN Raise("KeyError")
    ELSE IF config.chatbot_api_host # GatewayHost
         THEN IF "bearer" \notin DOMAIN config THEN Raise("KeyError")
              ELSE Return(OpenWebUIClient(config.chatbot_api_host, config.bearer))
         ELSE Return(OllamaClient(config.chatbot_api_host))

\* ChatbotClientFactory.create_client: config["..."] raises KeyError on a
\* missing key.
create_client(config) ==
    IF "chatbot_api_host" \notin DOMAIN config THEN Raise("KeyError")
    ELSE IF config.chatbot_api_host = GatewayHost
         THEN IF "bearer" \notin DOMAIN config THEN Raise("KeyError")
              ELSE Return(OpenWebUIClient(config.chatbot_api_host, config.bearer))
         ELSE Return(OllamaClient(config.chatbot_api_host))

\* A prompt argument: a str s, or None.
PromptNone == [t |-> "none", s |-> ""]
PromptStr(s) == [t |-> "str", s |-> s]
PromptInputs == {PromptNone, PromptStr(""), PromptStr("be brief"), PromptStr("be formal")}
PromptTruthy(p) == p.t = "str" /\ p.s # ""

\* A set_system_prompt without its "if prompt" test.
set_system_prompt_always(c, prompt) == [c EXCEPT !.system_prompt = prompt.s]

\* ChatbotClient.set_system_prompt, which OllamaClient overrides with the same
\* body: the client afterwards.
set_system_prompt(c, prompt) ==
    IF PromptTruthy(prompt) THEN [c EXCEPT !.system_prompt = prompt.s] ELSE c

\* ChatbotClient._generate_system_message
generate_system_message(c) ==
    IF c.system_prompt # "" THEN <<[role |-> "system", content |-> c.system_prompt]>>
    ELSE <<>>

\* ---------------------------------------------------------------- events

Ev(e) == [e |-> e, data |-> ""]
EvData(e, data) == [e |-> e, data |-> data]

Has(evs, e) == \E i \in 1..Len(evs) : evs[i].e = e
Count(evs, e) == Cardinality({i \in 1..Len(evs) : evs[i].e = e})
\* The place of the first event e (0 when there is none).
IndexOf(evs, e) ==
    IF Has(evs, e) THEN CHOOSE i \in 1..Len(evs) : evs[i].e = e /\ \A j \in 1..(i - 1) : evs[j].e # e
    ELSE 0

\* ----------------------------------------------------------- chat: _chat

\* The options argument of chat_completion: absent (None) or the caller's object.
NoOptions == [given |-> FALSE, o |-> ModelOptions]
Given(o) == [given |-> TRUE, o |-> o]

\* "self._parse_options(options) if options else {}": a ModelOptions object is
\* always true (a dataclass defines neither __bool__ nor __len__), None is not.
\* The events of the step and its result.
ParseStep(kind, options) ==
    IF ~options.given THEN [events |-> <<>>, result |-> Return(EmptyDict)]
    ELSE IF validate(options.o) # ""
         THEN [events |-> <<Ev("validate")>>, result |-> parse_options(kind, options.o)]
         ELSE [events |-> <<Ev("validate"), Ev("translate")>>,
               result |-> parse_options(kind, options.o)]

\* post_body after update() and the system message.
PostBody(c, message, model_name, params) ==
    [model |-> model_name,
     messages |-> generate_system_message(c) \o <<[role |-> "user", content |-> message]>>,
     stream |-> IF c.kind = "Ollama" THEN "false" ELSE "absent",
     merged |-> params]

PostRequest(c, message, model_name, params) ==
    [url |-> IF c.kind = "Ollama" THEN <<"http://", c.host, "/api/chat">>
             ELSE <<"https://", c.host, "/api/chat/completions">>,
     bearer |-> c.bearer,
     timeout |-> IF c.kind = "Ollama" THEN I(600) ELSE PyNone,
     json |-> PostBody(c, message, model_name, params)]

\* breakpoint() in OllamaClient._chat: a no-op when PYTHONBREAKPOINT=0, else
\* the debugger prompt, which the operator leaves by continuing or by quitting.
BreakpointStep(c, dbg) ==
    IF c.kind # "Ollama" \/ dbg = "disabled" THEN [events |-> <<>>, result |-> Return(PyNone)]
    ELSE IF dbg = "continue" THEN [events |-> <<Ev("debugger_wait")>>, result |-> Return(PyNone)]
    ELSE [events |-> <<Ev("debugger_wait")>>, result |-> Raise("BdbQuit")]

\* What the network does with the one request: no response at all (connection
\* error or timeout), an error status, or a JSON body.
NetFailures == {"no_response", "error_status"}
HttpStep(request, net) ==
    IF net.outcome = "no_response"
    THEN [events |-> <<EvData("post", request)>>, result |-> Raise("RequestException")]
    ELSE IF net.outcome = "error_status"
    THEN [events |-> <<EvData("post", request), Ev("response")>>, result |-> Raise("HTTPError")]
    ELSE [events |-> <<EvData("post", request), EvData("response", net.body)>>,
          result |-> Return(net.body)]

\* A _chat that sends the request before it looks at the options.
chat_post_first(c, message, model_name, options, dbg, net) ==
    LET http == HttpStep(PostRequest(c, message, model_name, EmptyDict), net)
        parse == ParseStep(c.kind, options)
    IN  IF parse.result.kind = "raise"
        THEN [events |-> http.events \o parse.events, result |-> parse.result]
        ELSE [events |-> http.events \o parse.events, result |-> http.result]

\* _chat of either variant: the events it produces and its result.
chat(c, message, model_name, options, dbg, net) ==
    LET parse == ParseStep(c.kind, options)
    IN  IF parse.result.kind = "raise" THEN parse
        ELSE LET brk == BreakpointStep(c, dbg)
                 built == parse.events \o <<Ev("build")>> \o brk.events
             IN  IF brk.result.kind = "raise"
                 THEN [events |-> built, result |-> brk.result]
                 ELSE LET http == HttpStep(PostRequest(c, message, model_name, parse.result.val), net)
                      IN  [events |-> built \o http.events, result |-> http.result]

\* ------------------------------------------------- chat: chat_completion

AIModel(name, parameter_size) == [name |-> name, parameter_size |-> parameter_size]

\* JSON bodies a backend may answer a chat request with. A missing key is a
\* has_* flag that is FALSE.
Msg(content) == [has_content |-> TRUE, content |-> content]
MsgNoContent == [has_content |-> FALSE, content |-> ""]
Choice(msg) == [has_message |-> TRUE, message |-> msg]
ChoiceNoMessage == [has_message |-> FALSE, message |-> MsgNoContent]
ChoicesBody(choices) ==
    [has_choices |-> TRUE, choices |-> choices, has_message |-> FALSE, message |-> MsgNoContent]
MessageBody(msg) ==
    [has_choices |-> FALSE, choices |-> <<>>, has_message |-> TRUE, message |-> msg]
EmptyBody ==
    [has_choices |-> FALSE, choices |-> <<>>, has_message |-> FALSE, message |-> MsgNoContent]

ChatBodies ==
    {ChoicesBody(<<Choice(Msg("hello"))>>),
     ChoicesBody(<<Choice(MsgNoContent), Choice(Msg("second"))>>),
     ChoicesBody(<<Choice(MsgNoContent)>>),
     ChoicesBody(<<ChoiceNoMessage>>),
     ChoicesBody(<<>>),
     EmptyBody,
     MessageBody(Msg("hello")),
     MessageBody(MsgNoContent)}

NetOutcomes ==
    {[outcome |-> f, body |-> EmptyBody] : f \in NetFailures}
        \cup {[outcome |-> "ok", body |-> b] : b \in ChatBodies}

\* What surrounds one chat call: the debugger mode and the network's answer.
\* Only OllamaClient._chat reaches breakpoint(), and a call the operator quits
\* in the debugger never reaches the network.
NoNet == [outcome |-> "unused", body |-> EmptyBody]
Environments(c) ==
    {[dbg |-> d, net |-> n] :
        d \in (IF c.kind = "Ollama" THEN {"disabled", "continue"} ELSE {"disabled"}),
        n \in NetOutcomes}
        \cup (IF c.kind = "Ollama" THEN {[dbg |-> "quit", net |-> NoNet]} ELSE {})

\* The values chat_completion returns: a (latency, text) pair, or None when
\* the function falls off its end.
Pair(latency, text) == [tag |-> "pair", latency |-> latency, text |-> text]
ReturnsNone == [tag |-> "None", latency |-> PyNone, text |-> ""]

\* OpenWebUIClient.chat_completion after _chat returned: the loop over
\* response_json["choices"] that returns in its first iteration.
OpenWebUI_first_choice(body, elapsed_ms) ==
    IF ~body.has_choices THEN Raise("KeyError")
    ELSE IF body.choices = <<>> THEN Return(ReturnsNone)
    ELSE LET choice == Head(body.choices)
         IN  IF ~choice.has_message THEN Return(Pair(I(-1), "'message'"))
             ELSE IF ~choice.message.has_content THEN Return(Pair(I(-1), "'content'"))
             ELSE Return(Pair(I(elapsed_ms), choice.message.content))

\* OllamaClient.chat_completion after _chat returned; the latency is a float.
Ollama_message_content(body, elapsed_ms) ==
    IF ~body.has_message \/ ~body.message.has_content THEN Raise("KeyError")
    ELSE Return(Pair(F(elapsed_ms * 10), body.message.content))

\* A chat_completion that reads the clock only once the options are parsed.
chat_completion_timing_post_only(c, message, model, options, dbg, net, elapsed_ms) ==
    LET r == chat(c, message, model.name, options, dbg, net)
        split == IndexOf(r.events, "post")
    IN  IF r.result.kind = "raise"
        THEN [events |-> r.events, result |-> r.result]
        ELSE [events |-> SubSeq(r.events, 1, split - 1) \o <<Ev("start_time")>>
                            \o SubSeq(r.events, split, Len(r.events)) \o <<Ev("end_time")>>,
              result |-> IF c.kind = "OpenWebUI"
                         THEN OpenWebUI_first_choice(r.result.val, elapsed_ms)
                         ELSE Ollama_message_content(r.result.val, elapsed_ms)]

\* chat_completion of either variant: start_time, _chat, end_time, the reply.
chat_completion(c, message, model, options, dbg, net, elapsed_ms) ==
    LET r == chat(c, message, model.name, options, dbg, net)
    IN  IF r.result.kind = "raise"
        THEN [events |-> <<Ev("start_time")>> \o r.events, result |-> r.result]
        ELSE [events |-> <<Ev("start_time")>> \o r.events \o <<Ev("end_time")>>,
              result |-> IF c.kind = "OpenWebUI"
                         THEN OpenWebUI_first_choice(r.result.val, elapsed_ms)
                         ELSE Ollama_message_content(r.result.val, elapsed_ms)]

\* ---------------------------------------------------------- client actions

\* client = ChatbotClientFactory.create_client(config); when it raises, the
\* caller keeps what it had.
CreateClient(config) ==
    /\ op' = [name |-> "create_client", config |-> config]
    /\ ret' = create_client(config)
    /\ events' = <<>>
    /\ pre' = client
    /\ client' = IF ret'.kind = "return" THEN ret'.val ELSE client
    /\ lastPrompt' = IF ret'.kind = "return" THEN "" ELSE lastPrompt
    /\ UNCHANGED <<opts, inventory>>

\* client.set_system_prompt(prompt)
SetSystemPrompt(prompt) ==
    /\ client # NoClient
    /\ op' = [name |-> "set_system_prompt", prompt |-> prompt]
    /\ pre' = client
    /\ client' = set_system_prompt(client, prompt)
    /\ ret' = Return(PyNone)
    /\ events' = <<>>
    /\ lastPrompt' = IF prompt.t = "str" /\ prompt.s # "" THEN prompt.s ELSE lastPrompt
    /\ UNCHANGED <<opts, inventory>>

Messages == {"hi"}
ChatModels == {AIModel("llava:latest", <<"7", "B">>)}
ElapsedMs == {0, 250}

\* The options arguments tried in chat calls: None, the default object, objects
\* with every field valid, with valid zeros, and with each kind of violation.
With(o, f, x) == [o EXCEPT ![f] = x]
AllSet ==
    [max_tokens |-> I(7), temperature |-> F(5), top_k |-> I(50), top_p |-> F(10),
     context_window_size |-> I(7), seed |-> I(7)]
ChatOptionInputs ==
    {NoOptions, Given(ModelOptions), Given(AllSet),
     Given(With(With(AllSet, "temperature", F(0)), "seed", I(0))),
     Given(With(ModelOptions, "temperature", F(15))),
     Given(With(ModelOptions, "temperature", I(1))),
     Given(With(AllSet, "top_k", I(101))),
     Given(With(With(ModelOptions, "seed", F(15)), "top_p", F(-5))),
     Given(With(ModelOptions, "max_tokens", S(0)))}

\* client.chat_completion(message, model, options)
ChatCompletion(message, model, options, env, elapsed_ms) ==
    /\ client # NoClient
    /\ LET r == chat_completion(client, message, model, options, env.dbg, env.net, elapsed_ms)
       IN  /\ op' = [name |-> "chat_completion", message |-> message, model |-> model,
                     options |-> options, net |-> env.net]
           /\ events' = r.events
           /\ ret' = r.result
    /\ pre' = client
    /\ UNCHANGED <<client, opts, inventory, lastPrompt>>

Next ==
    \/ \E config \in Configs : CreateClient(config)
    \/ \E prompt \in PromptInputs : SetSystemPrompt(prompt)
    \/ \E message \in Messages, model \in ChatModels, options \in ChatOptionInputs,
          env \in Environments(client), elapsed_ms \in ElapsedMs :
            ChatCompletion(message, model, options, env, elapsed_ms)

Spec == Init /\ [][Next]_vars

\* ------------------------------------------------------------ get_models

\* One entry of a listing body. A missing key is a has_* flag that is FALSE.
\* The gateway nests the size under ollama.details, the local runner under
\* details; an entry may carry either path, both or none.
Details(size) == [has_parameter_size |-> TRUE, parameter_size |-> size]
DetailsNoSize == [has_parameter_size |-> FALSE, parameter_size |-> <<>>]
NoDetails == [has_details |-> FALSE, details |-> DetailsNoSize]
WithDetails(d) == [has_details |-> TRUE, details |-> d]
Entry(has_name, name, has_ollama, ollama, own) ==
    [has_name |-> has_name, name |-> name, has_ollama |-> has_ollama, ollama |-> ollama,
     has_details |-> own.has_details, details |-> own.details]

Entries ==
    {Entry(TRUE, "a", TRUE, WithDetails(Details(<<"7", "B">>)), WithDetails(Details(<<"1", "3", "B">>))),
     Entry(TRUE, "b", TRUE, WithDetails(Details(<<"1", "3", "B">>)), WithDetails(Details(<<"7", "B">>))),
     Entry(TRUE, "c", TRUE, WithDetails(Details(<<"1", "3", "7", "M">>)), NoDetails),
     Entry(FALSE, "", TRUE, WithDetails(Details(<<"7", "B">>)), WithDetails(Details(<<"7", "B">>))),
     Entry(TRUE, "d", FALSE, NoDetails, WithDetails(Details(<<"1", ".", "5", "B">>))),
     Entry(TRUE, "e", TRUE, WithDetails(DetailsNoSize), WithDetails(DetailsNoSize))}

\* What the network does with the listing request; a JSON body has its list
\* under "data" (gateway) or under "models" (local runner).
ListingOutcomes ==
    {[outcome |-> f, key |-> ""] : f \in NetFailures}
        \cup {[outcome |-> "ok", key |-> k] : k \in {"data", "models"}}

\* AIModel(name=model_info["name"],
\*         parameter_size=model_info["ollama"]["details"]["parameter_size"])
\* in OpenWebUIClient.get_models: the model, or the KeyError of a missing key.
OpenWebUI_model_of(model_info) ==
    IF ~model_info.has_name THEN Raise("KeyError")
    ELSE IF ~model_info.has_ollama THEN Raise("KeyError")
    ELSE IF ~model_info.ollama.has_details THEN Raise("KeyError")
    ELSE IF ~model_info.ollama.details.has_parameter_size THEN Raise("KeyError")
    ELSE Return(AIModel(model_info.name, model_info.ollama.details.parameter_size))

\* AIModel(name=model["name"], parameter_size=model["details"]["parameter_size"])
\* in OllamaClient.get_models.
Ollama_model_of(model) ==
    IF ~model.has_name THEN Raise("KeyError")
    ELSE IF ~model.has_details THEN Raise("KeyError")
    ELSE IF ~model.details.has_parameter_size THEN Raise("KeyError")
    ELSE Return(AIModel(model.name, model.details.parameter_size))

model_of(kind, entry) ==
    IF kind = "OpenWebUI" THEN OpenWebUI_model_of(entry) ELSE Ollama_model_of(entry)

\* A loop that drops the entries it cannot read.
RECURSIVE ModelsFromSkipping(_, _, _, _)
ModelsFromSkipping(kind, entries, i, models) ==
    IF i > Len(entries) THEN Return(models)
    ELSE LET m == model_of(kind, entries[i])
         IN  IF m.kind = "raise" THEN ModelsFromSkipping(kind, entries, i + 1, models)
             ELSE ModelsFromSkipping(kind, entries, i + 1, Append(models, m.val))

\* The loop (or comprehension) over the listing: entries from the i-th on,
\* with the models built so far.
RECURSIVE ModelsFrom(_, _, _, _)
ModelsFrom(kind, entries, i, models) ==
    IF i > Len(entries) THEN Return(models)
    ELSE LET m == model_of(kind, entries[i])
         IN  IF m.kind = "raise" THEN m
             ELSE ModelsFrom(kind, entries, i + 1, Append(models, m.val))

ListingRequest(c) ==
    [url |-> IF c.kind = "Ollama" THEN <<"http://", c.host, "/api/tags">>
             ELSE <<"https://", c.host, "/api/models">>,
     bearer |-> c.bearer]

ListingKey(kind) == IF kind = "OpenWebUI" THEN "data" ELSE "models"

\* _get_models and get_models of either variant: the events and the result.
get_models(c, net, listing) ==
    IF net.outcome = "no_response"
    THEN [events |-> <<EvData("get", ListingRequest(c))>>, result |-> Raise("RequestException")]
    ELSE IF net.outcome = "error_status"
    THEN [events |-> <<EvData("get", ListingRequest(c)), Ev("response")>>,
          result |-> Raise("HTTPError")]
    ELSE [events |-> <<EvData("get", ListingRequest(c)), Ev("response")>>,
          result |-> IF net.key # ListingKey(c.kind) THEN Raise("KeyError")
                     ELSE ModelsFrom(c.kind, listing, 1, <<>>)]

\* -------------------------------------------------------------- bootstrap

Digits == <<"0", "1", "2", "3", "4", "5", "6", "7", "8", "9">>
IsDigit(ch) == \E d \in 1..10 : Digits[d] = ch
DigitValue(ch) == (CHOOSE d \in 1..10 : Digits[d] = ch) - 1

\* str.strip("B"): every leading and every trailing "B" removed.
RECURSIVE LStripB(_)
LStripB(chars) ==
    IF chars # <<>> /\ Head(chars) = "B" THEN LStripB(Tail(chars)) ELSE chars
RECURSIVE RStripB(_)
RStripB(chars) ==
    IF chars # <<>> /\ chars[Len(chars)] = "B" THEN RStripB(SubSeq(chars, 1, Len(chars) - 1))
    ELSE chars
StripB(chars) == RStripB(LStripB(chars))

\* float(text) for text made of digits, "." and letters: digits with at most
\* one ".", and at least one digit; anything else raises ValueError. The value
\* is kept in tenths (one fractional digit is kept).
RECURSIVE IntValue(_)
IntValue(chars) ==
    IF chars = <<>> THEN 0
    ELSE IntValue(SubSeq(chars, 1, Len(chars) - 1)) * 10 + DigitValue(chars[Len(chars)])

Dots(chars) == {i \in 1..Len(chars) : chars[i] = "."}

ParseFloat(chars) ==
    IF \/ \E i \in 1..Len(chars) : ~IsDigit(chars[i]) /\ chars[i] # "."
       \/ Cardinality(Dots(chars)) > 1
       \/ ~\E i \in 1..Len(chars) : IsDigit(chars[i])
    THEN Raise("ValueError")
    ELSE IF Dots(chars) = {} THEN Return(IntValue(chars) * 10)
    ELSE LET dot == CHOOSE i \in Dots(chars) : TRUE
         IN  Return(IntValue(SubSeq(chars, 1, dot - 1)) * 10
                    + (IF dot < Len(chars) THEN DigitValue(chars[dot + 1]) ELSE 0))

\* The initial value of smallest in _get_smallest_model.
SmallestStart == 9999999

NoModel == AIModel("", <<>>)

\* _get_smallest_model: the loop from the i-th model on, with smallest (in
\* tenths) and chosen_model so far; chosen_model None is NoModel.
RECURSIVE SmallestFrom(_, _, _, _)
SmallestFrom(models, i, smallest, chosen_model) ==
    IF i > Len(models) THEN Return(chosen_model)
    ELSE LET size == ParseFloat(StripB(models[i].parameter_size))
         IN  IF size.kind = "raise" THEN size
             ELSE IF size.val < smallest
                  THEN SmallestFrom(models, i + 1, size.val, models[i])
                  ELSE SmallestFrom(models, i + 1, smallest, chosen_model)

get_smallest_model(models) == SmallestFrom(models, 1, SmallestStart * 10, NoModel)

\* The first model whose name equals preferred_model, or NoModel.
FirstNamed(models, preferred_model) ==
    IF \E i \in 1..Len(models) : models[i].name = preferred_model
    THEN models[CHOOSE i \in 1..Len(models) :
                    /\ models[i].name = preferred_model
                    /\ \A j \in 1..(i - 1) : models[j].name # preferred_model]
    ELSE NoModel

\* bootstrap_client_and_model after config_factory() returned config: the
\* events and the result, a (client, model) pair.
bootstrap_client_and_model(config, preferred_model, net, listing) ==
    LET made == create_client(config)
    IN  IF made.kind = "raise" THEN [events |-> <<>>, result |-> made]
        ELSE LET listed == get_models(made.val, net, listing)
             IN  IF listed.result.kind = "raise" THEN listed
                 ELSE LET fallback_model == get_smallest_model(listed.result.val)
                          picked_model == FirstNamed(listed.result.val, preferred_model)
                      IN  IF fallback_model.kind = "raise"
                          THEN [events |-> listed.events, result |-> fallback_model]
                          ELSE [events |-> listed.events,
                                result |-> Return([client |-> made.val,
                                                   model |-> IF picked_model # NoModel
                                                             THEN picked_model
                                                             ELSE fallback_model.val])]

\* --------------------------------------------------------- listing actions

\* The backend's inventory gains a model.
AddModel(entry) ==
    /\ Len(inventory) < MaxModels
    /\ inventory' = Append(inventory, entry)
    /\ op' = NoOp
    /\ events' = <<>>
    /\ ret' = NoResult
    /\ UNCHANGED <<client, pre, opts, lastPrompt>>

\* client.get_models()
GetModels(net) ==
    /\ client # NoClient
    /\ LET r == get_models(client, net, inventory)
       IN  /\ events' = r.events
           /\ ret' = r.result
    /\ op' = [name |-> "get_models", net |-> net]
    /\ pre' = client
    /\ UNCHANGED <<client, opts, inventory, lastPrompt>>

PreferredModels == {"", "a", "zzz"}

\* client, model = bootstrap_client_and_model(preferred_model)
Bootstrap(config, preferred_model, net) ==
    /\ LET r == bootstrap_client_and_model(config, preferred_model, net, inventory)
       IN  /\ events' = r.events
           /\ ret' = r.result
           /\ client' = IF r.result.kind = "return" THEN r.result.val.client ELSE client
           /\ lastPrompt' = IF r.result.kind = "return" THEN "" ELSE lastPrompt
    /\ op' = [name |-> "bootstrap_client_and_model", config |-> config,
              preferred_model |-> preferred_model, net |-> net]
    /\ pre' = client
    /\ UNCHANGED <<opts, inventory>>

NextListing ==
    \/ \E entry \in Entries : AddModel(entry)
    \/ \E config \in Configs : CreateClient(config)
    \/ \E net \in ListingOutcomes : GetModels(net)

SpecListing == Init /\ [][NextListing]_vars

NextBootstrap ==
    \/ \E entry \in Entries : AddModel(entry)
    \/ \E config \in Configs, preferred_model \in PreferredModels, net \in ListingOutcomes :
            Bootstrap(config, preferred_model, net)

SpecBootstrap == Init /\ [][NextBootstrap]_vars

NextOptions ==
    \/ \E f \in Fields : \E x \in FieldInputs(f) : SetOption(f, x)
    \/ \E f \in Fields : ClearOption(f)
    \/ Validate
    \/ \E kind \in Kinds : ParseOptions(kind)

SpecOptions == Init /\ [][NextOptions]_vars

\* ------------------------------------------------------------ properties

UserMessage(message) == [role |-> "user", content |-> message]
SystemMessage(prompt) == [role |-> "system", content |-> prompt]
PostedMessages == {events[i].data.json.messages : i \in {j \in 1..Len(events) : events[j].e = "post"}}

\* C1: a set_system_prompt with an empty or absent prompt leaves the client as
\* it was, and every chat request carries exactly [user message] while no
\* non-empty prompt was ever set on the instance, and exactly [system message
\* with the most recently set non-empty prompt, user message] once one was.
SystemPromptGovernsMessages ==
    /\ (op.name = "set_system_prompt" /\ (op.prompt.t = "none" \/ op.prompt.s = ""))
            => client = pre
    /\ op.name = "chat_completion" =>
            \A messages \in PostedMessages :
                messages = IF lastPrompt = "" THEN <<UserMessage(op.message)>>
                           ELSE <<SystemMessage(lastPrompt), UserMessage(op.message)>>

\* A chat request went out from an instance whose prompt was set.
SystemPromptSent ==
    /\ op.name = "chat_completion"
    /\ PostedMessages # {}
    /\ lastPrompt = "be formal"

\* C2: a chat_completion whose options fail validation raises the validation
\* error, sends no POST and leaves the client's host, credential and system
\* prompt as they were.
InvalidOptionsSendNothing ==
    (op.name = "chat_completion" /\ op.options.given /\ validate(op.options.o) # "")
        => /\ ret = Raise(validate(op.options.o))
           /\ ~Has(events, "post")
           /\ client = pre

\* A chat call with options that fail validation has been made on each path:
\* here one that raised ValueError on a client with a system prompt.
InvalidOptionsTried ==
    /\ op.name = "chat_completion"
    /\ op.options.given
    /\ ret = Raise("ValueError")
    /\ client.system_prompt # ""

\* The reply body lacks the shape the variant reads.
Malformed(kind, body) ==
    IF kind = "OpenWebUI"
    THEN \/ ~body.has_choices
         \/ body.choices = <<>>
         \/ ~Head(body.choices).has_message
         \/ ~Head(body.choices).message.has_content
    ELSE ~body.has_message \/ ~body.message.has_content

\* C3: when the HTTP call succeeds and the body lacks the expected shape,
\* chat_completion returns (-1, description) and does not raise.
MalformedReplyReturnsSentinel ==
    (op.name = "chat_completion" /\ Has(events, "response") /\ op.net.outcome = "ok"
        /\ Malformed(pre.kind, op.net.body))
        => /\ ret.kind = "return"
           /\ ret.val.tag = "pair"
           /\ ret.val.latency = I(-1)

\* A non-absent field value that breaks the field's declared type or range.
Breaks(f, x) ==
    /\ x # PyNone
    /\ CASE f \in {"temperature", "top_p"} -> x.t # "float" \/ x.v < 0 \/ x.v > 10
         [] f = "top_k" -> x.t # "int" \/ x.v < 0 \/ x.v > 100
         [] OTHER -> x.t # "int"

\* C4: validate raises for every options value in which some non-absent field
\* breaks its declared type or range, zero and empty values included.
ValidateRejectsEveryViolation ==
    (op.name = "validate" /\ \E f \in Fields : Breaks(f, opts[f])) => ret.kind = "raise"

\* The mapping the non-absent fields make under a variant's names.
NonAbsentParams(o, param) ==
    LET set == {f \in Fields : o[f] # PyNone}
    IN  [k \in {param[f] : f \in set} |-> o[CHOOSE f \in set : param[f] = k]]

\* C5: for every valid options value _parse_options returns the non-absent
\* fields and only those, unchanged: flat for the gateway, nested under one
\* options key for the local runner and without that key when no field is set.
TranslationKeepsEveryField ==
    (op.name = "_parse_options" /\ \A f \in Fields : ~Breaks(f, opts[f]))
        => ret = Return(IF op.kind = "OpenWebUI" THEN NonAbsentParams(opts, OpenWebUIParam)
                        ELSE IF opts = ModelOptions THEN EmptyDict
                        ELSE [k \in {"options"} |-> NonAbsentParams(opts, OllamaParam)])

\* The models a bootstrap call was given by its listing, when it got one.
Listed ==
    LET made == create_client(op.config)
    IN  IF made.kind = "raise" THEN Raise("no client")
        ELSE get_models(made.val, op.net, inventory).result

\* C6: bootstrap returns the listed model named as preferred whenever there is
\* one, whatever the listed parameter sizes; otherwise, from a non-empty
\* listing of numeric sizes, a listed model of the smallest size.
BootstrapPicksPreferredElseSmallest ==
    (op.name = "bootstrap_client_and_model" /\ Listed.kind = "return")
        => LET models == Listed.val
               named == {i \in 1..Len(models) : models[i].name = op.preferred_model}
               size(i) == ParseFloat(StripB(models[i].parameter_size))
           IN  IF named # {}
               THEN /\ ret.kind = "return"
                    /\ ret.val.model \in {models[i] : i \in named}
               ELSE (models # <<>> /\ \A i \in 1..Len(models) : size(i).kind = "return")
                    => /\ ret.kind = "return"
                       /\ \E i \in 1..Len(models) :
                            /\ ret.val.model = models[i]
                            /\ \A j \in 1..Len(models) : size(i).val <= size(j).val

\* An entry has the shape a variant reads.
WellShaped(kind, entry) ==
    /\ entry.has_name
    /\ IF kind = "OpenWebUI"
       THEN entry.has_ollama /\ entry.ollama.has_details
                /\ entry.ollama.details.has_parameter_size
       ELSE entry.has_details /\ entry.details.has_parameter_size

SizeOf(kind, entry) ==
    IF kind = "OpenWebUI" THEN entry.ollama.details.parameter_size
    ELSE entry.details.parameter_size

\* C7: get_models, given a listing body, returns one model per entry, in
\* listing order, with the entry's name and the size from the variant's path
\* when every entry has the expected shape, and raises when any entry lacks it.
ListingIsAllOrNothing ==
    (op.name = "get_models" /\ op.net.outcome = "ok" /\ op.net.key = ListingKey(pre.kind))
        => IF \A i \in 1..Len(inventory) : WellShaped(pre.kind, inventory[i])
           THEN ret = Return([i \in 1..Len(inventory) |->
                                AIModel(inventory[i].name, SizeOf(pre.kind, inventory[i]))])
           ELSE ret.kind = "raise"

\* get_models returned two models, in an order and with sizes that differ
\* between the two paths.
ListingOfTwoReturned ==
    /\ op.name = "get_models"
    /\ ret.kind = "return"
    /\ Len(ret.val) = 2
    /\ ret.val[1].parameter_size # ret.val[2].parameter_size

\* What C8 says create_client returns for a configuration with a host.
FactoryOutcome ==
    /\ ret.kind = "return"
    /\ ret.val.kind = IF op.config.chatbot_api_host = GatewayHost THEN "OpenWebUI" ELSE "Ollama"
    /\ ret.val.host = op.config.chatbot_api_host
    /\ client = ret.val
    /\ ~Has(events, "post") /\ ~Has(events, "get")

\* C8 as stated: create_client, given any configuration with a
\* chatbot_api_host, constructs the gateway variant for the gateway host and
\* the local-runner variant otherwise, without a network request.
FactoryConstructsForAnyHostConfig ==
    (op.name = "create_client" /\ "chatbot_api_host" \in DOMAIN op.config) => FactoryOutcome

\* C8 amended: the same, for configurations that also carry the bearer
\* credential whenever the host is the gateway host.
FactoryConstructsGivenCredential ==
    (op.name = "create_client" /\ "chatbot_api_host" \in DOMAIN op.config
        /\ (op.config.chatbot_api_host = GatewayHost => "bearer" \in DOMAIN op.config))
        => FactoryOutcome

\* The factory built a local-runner client for a caller that held a gateway
\* client: both routes have been taken.
FactoryBuiltBothVariants ==
    /\ op.name = "create_client"
    /\ ret.kind = "return"
    /\ ret.val.kind = "Ollama"
    /\ pre.kind = "OpenWebUI"

OptionSteps == {i \in 1..Len(events) : events[i].e \in {"validate", "translate"}}

\* C9 as stated: in chat_completion no options validation or translation step
\* lies after the start timestamp, and the end timestamp follows the response.
LatencyExcludesOptionParsing ==
    op.name = "chat_completion" =>
        /\ \A i \in OptionSteps : i < IndexOf(events, "start_time")
        /\ Has(events, "end_time") => events[Len(events) - 1].e = "response"

\* C9 amended: the start timestamp is the first step of chat_completion, so
\* every step of _chat (validation, translation, building the body, the
\* debugger stop, the HTTP exchange) lies after it; the end timestamp is the
\* step right after the response, and is taken only when _chat returned.
LatencyCoversWholeChat ==
    op.name = "chat_completion" =>
        /\ events # <<>> /\ events[1].e = "start_time"
        /\ Count(events, "start_time") = 1
        /\ \A i \in OptionSteps : i > IndexOf(events, "start_time")
        /\ Has(events, "end_time") =>
                /\ events[Len(events)].e = "end_time"
                /\ events[Len(events) - 1].e = "response"
                /\ \A i \in OptionSteps : i < IndexOf(events, "end_time")
        /\ Has(events, "end_time") <=> (Has(events, "response") /\ op.net.outcome = "ok")

\* A chat call validated and translated its options and took both timestamps.
TimedChatWithOptions ==
    /\ op.name = "chat_completion"
    /\ Has(events, "translate")
    /\ Has(events, "end_time")

\* C10: a chat_completion call ends by returning or raising, sends at most one
\* request, and between building the request and sending it waits on nothing.
ChatSendsWithoutWaiting ==
    op.name = "chat_completion" =>
        /\ ret.kind \in {"return", "raise"}
        /\ Count(events, "post") <= 1
        /\ ~\E i \in 1..Len(events) :
                /\ events[i].e = "debugger_wait"
                /\ IndexOf(events, "build") < i

====
